---- MODULE Spec2Model ----
(***************************************************************************)
(* A model of docker-discord-alerts (src/main.py): the DockerMonitor       *)
(* object, its event loop monitor_events, the container lookup             *)
(* get_container_status and the webhook delivery send_discord_embed.       *)
(*                                                                         *)
(* Python str values that the program takes apart (split, lower, int,      *)
(* slicing, replace) are sequences of one-character strings; str values    *)
(* that are only passed along are TLA+ strings.                            *)
(***************************************************************************)
EXTENDS Integers, Sequences, FiniteSets, TLC

\* ------------------------------------------------------------------ bounds

\* number of events the stream yields before the model stops reading
MaxEvents == 2

\* ------------------------------------------------- Python str, as char seqs

None == <<"<None>">>

s_star == <<"*">>
s_all == <<"a","l","l">>
s_unknown == <<"u","n","k","n","o","w","n">>
s_web == <<"w","e","b">>
s_db == <<"d","b">>
s_cache == <<"c","a","c","h","e">>
s_web_db == <<"w","e","b",",","d","b">>
s_start == <<"s","t","a","r","t">>
s_die == <<"d","i","e">>
s_kill == <<"k","i","l","l">>
s_pause == <<"p","a","u","s","e">>
s_unpause == <<"u","n","p","a","u","s","e">>
s_health_status == <<"h","e","a","l","t","h","_","s","t","a","t","u","s">>
s_Start_die == <<"S","t","a","r","t",",","d","i","e">>
s_url == <<"h","t","t","p">>
s_error == <<"e","r","r","o","r">>
s_Unknown == <<"U","n","k","n","o","w","n">>
s_created == <<"2","0","2","4","-","0","1","-","0","1","T","1","2",":","0","0",":","0","0",".","0","0","0","Z">>

Upper == <<"A","B","C","D","E","F","G","H","I","J","K","L","M",
           "N","O","P","Q","R","S","T","U","V","W","X","Y","Z">>
Lower == <<"a","b","c","d","e","f","g","h","i","j","k","l","m",
           "n","o","p","q","r","s","t","u","v","w","x","y","z">>

\* str.lower(), one character
LowerChar(c) ==
    IF \E i \in 1..26 : Upper[i] = c
    THEN Lower[CHOOSE i \in 1..26 : Upper[i] = c]
    ELSE c

\* str.lower()
StrLower(s) == [i \in 1..Len(s) |-> LowerChar(s[i])]

\* str.split(sep) with a one-character separator: "" gives [""], "a,,b" gives
\* ["a", "", "b"]; nothing is stripped
RECURSIVE StrSplit(_, _)
StrSplit(s, sep) ==
    IF \E i \in 1..Len(s) : s[i] = sep
    THEN LET i == CHOOSE j \in 1..Len(s) :
                      s[j] = sep /\ \A k \in 1..(j-1) : s[k] # sep
         IN <<SubSeq(s, 1, i-1)>> \o StrSplit(SubSeq(s, i+1, Len(s)), sep)
    ELSE <<s>>

\* x in list
InList(x, l) == \E i \in 1..Len(l) : l[i] = x

\* s[:n]
StrPrefix(s, n) == SubSeq(s, 1, IF Len(s) < n THEN Len(s) ELSE n)

\* s.replace(a, b) for one-character a and b
StrReplace(s, a, b) == [i \in 1..Len(s) |-> IF s[i] = a THEN b ELSE s[i]]

Digits == <<"0","1","2","3","4","5","6","7","8","9">>
IsDigit(c) == \E d \in 1..10 : Digits[d] = c
DigitVal(c) == (CHOOSE d \in 1..10 : Digits[d] = c) - 1

RECURSIVE DigitsVal(_)
DigitsVal(s) ==
    IF Len(s) = 0 THEN 0
    ELSE 10 * DigitsVal(SubSeq(s, 1, Len(s)-1)) + DigitVal(s[Len(s)])

\* int(s): an optional sign and decimal digits; anything else is a ValueError
IntOf(s) ==
    LET body == IF Len(s) > 0 /\ s[1] \in {"-", "+"} THEN Tail(s) ELSE s
        neg == Len(s) > 0 /\ s[1] = "-"
    IN IF Len(body) > 0 /\ \A i \in 1..Len(body) : IsDigit(body[i])
       THEN [ok |-> TRUE, val |-> IF neg THEN 0 - DigitsVal(body) ELSE DigitsVal(body)]
       ELSE [ok |-> FALSE, val |-> 0]

\* os.environ.get(key, default)
EnvGet(env, key, default) == IF env[key] = None THEN default ELSE env[key]

\* --------------------------------------------------------- the environment

\* values of the environment variables the model starts from
EnvWebhooks == {None, <<>>, s_url}
EnvContainers == {None, s_web_db}
EnvLevels == {None, s_star, s_Start_die}
EnvHealthIntervals == {None, <<"5","m">>}
EnvMaxRetries == {None, <<"0">>, <<"1">>, <<"2">>, <<"x">>}
EnvRetryDelays == {None, <<"-","1">>}

Environs ==
    [DISCORD_WEBHOOK_URL : EnvWebhooks,
     MONITORED_CONTAINERS : EnvContainers,
     NOTIFICATION_LEVEL : EnvLevels,
     HEALTH_CHECK_INTERVAL : EnvHealthIntervals,
     MAX_RETRIES : EnvMaxRetries,
     RETRY_DELAY : EnvRetryDelays]

\* what the Docker event stream can yield (decode=True): a dict whose keys may
\* be missing.  Type is only compared, so it is a plain string.
Events ==
    { e \in [Type : {"container", "network"},
             hasActor : BOOLEAN,
             name : {None, s_web, s_cache},
             Action : {None, s_start, s_die, s_kill},
             exitCode : {None, <<"1","3","7">>},
             id : {None, <<"a","b","c">>}] :
        \* one representative of the events that differ only in keys nobody reads
        /\ (~e.hasActor => e.name = None /\ e.exitCode = None)
        /\ (e.exitCode # None => e.Action = s_die)
        \* container events: at most one of the keys the loop indexes is missing
        /\ (e.Type = "container" /\ ~e.hasActor => e.Action = s_start /\ e.id # None)
        /\ (e.Type = "container" /\ e.Action = None => e.name = s_web /\ e.id # None)
        /\ (e.Type = "container" /\ e.id = None =>
               e.name = s_web /\ e.Action \in {s_start, s_kill})
        \* events of another type: one with every key and one with none of them
        /\ (e.Type # "container" =>
               \/ e.hasActor /\ e.name = s_web /\ e.Action = s_start /\ e.id # None
               \/ ~e.hasActor /\ e.Action = None /\ e.id = None) }

NoEvent ==
    [Type |-> "none", hasActor |-> FALSE, name |-> None, Action |-> None,
     exitCode |-> None, id |-> None]

\* what client.containers.get(id) can do: raise docker.errors.NotFound, raise
\* something else, or return a container object
Containers ==
    { [tags |-> <<"web:latest">>, status |-> "running", hasHealth |-> TRUE,
       health |-> "healthy", Created |-> s_created, hasPlatform |-> TRUE,
       Platform |-> "linux"],
      [tags |-> <<>>, status |-> "exited", hasHealth |-> FALSE,
       health |-> "", Created |-> s_created, hasPlatform |-> FALSE,
       Platform |-> ""],
      \* attrs without 'Created'
      [tags |-> <<"web:latest">>, status |-> "running", hasHealth |-> FALSE,
       health |-> "", Created |-> None, hasPlatform |-> TRUE,
       Platform |-> "linux"] }

LookupResults ==
    { [kind |-> "NotFound"], [kind |-> "Exception"] } \cup
    { [kind |-> "container", container |-> c] : c \in Containers }

\* what one requests.post can do: return a response, or raise a
\* requests.exceptions.RequestException (connection error, timeout)
PostResults ==
    { [kind |-> "response", status_code |-> 204],
      [kind |-> "response", status_code |-> 500],
      [kind |-> "RequestException", status_code |-> 0] }

\* readings of the wall clock, in seconds
Times == {1, 2}

\* ------------------------------------------------------------------- state

VARIABLES
    environ,              \* os.environ
    webhook_url,          \* self.webhook_url
    monitored_containers, \* self.monitored_containers
    notification_level,   \* self.notification_level
    health_check_interval,\* self.health_check_interval
    max_retries,          \* self.max_retries
    retry_delay,          \* self.retry_delay
    pc,                   \* where the process is: "start", "read", "lookup", "post", "sleep", "exit"
    loop_state,           \* "NotStarted", "Running", "ShuttingDown"
    exit_code,            \* the process's exit status, -1 while it runs
    nread,                \* number of events taken from the stream
    event,                \* the event being processed (the last one read)
    got,                  \* what client.containers.get did for it
    status,               \* what get_container_status returned for it
    embed,                \* the embed send_discord_embed built for it
    attempt,              \* send_discord_embed's loop variable
    outcomes,             \* results of the POSTs of the current send_discord_embed call
    sleeps,               \* time.sleep calls of the current send_discord_embed call
    result,               \* its return value: "none" (not returned), "True", "False"
    posted,               \* the bodies of the POSTs of the current send_discord_embed call
    raised,               \* the exception that ended __init__ or monitor_events, "none" if none
    trace                 \* every lookup and POST made so far, <<kind, event number>>

config == <<environ, webhook_url, monitored_containers, notification_level,
            health_check_interval, max_retries, retry_delay>>
delivery == <<embed, attempt, outcomes, sleeps, result, posted>>
vars == <<config, pc, loop_state, exit_code, raised, nread, event, got, status, delivery, trace>>

NoLookup == [kind |-> "none"]
NoStatus == [image |-> "", status |-> "", health |-> "", created |-> <<>>, platform |-> ""]
NoEmbed == [title |-> <<>>, description |-> <<>>, color |-> 0, fields |-> <<>>, timestamp |-> 0]

Init ==
    /\ environ \in Environs
    /\ webhook_url = None
    /\ monitored_containers = None
    /\ notification_level = None
    /\ health_check_interval = 0
    /\ max_retries = 0
    /\ retry_delay = 0
    /\ pc = "start"
    /\ loop_state = "NotStarted"
    /\ exit_code = -1
    /\ nread = 0
    /\ event = NoEvent
    /\ got = NoLookup
    /\ status = NoStatus
    /\ embed = NoEmbed
    /\ attempt = 0
    /\ outcomes = <<>>
    /\ sleeps = 0
    /\ result = "none"
    /\ posted = <<>>
    /\ raised = "none"
    /\ trace = <<>>

\* ------------------------------------------------------ DockerMonitor.__init__

\* the falsy str values of `if not self.webhook_url`
Falsy(s) == s = None \/ s = <<>>

\* __init__ raises: no webhook URL, an int() that cannot parse, or a failed ping
InitRaises(env, pingOk) ==
    \/ Falsy(env.DISCORD_WEBHOOK_URL)
    \/ ~IntOf(EnvGet(env, "HEALTH_CHECK_INTERVAL", <<"3","0","0">>)).ok
    \/ ~IntOf(EnvGet(env, "MAX_RETRIES", <<"3">>)).ok
    \/ ~IntOf(EnvGet(env, "RETRY_DELAY", <<"5">>)).ok
    \/ ~pingOk

\* the exception __init__ raises when it raises: the ValueError of line 27 or
\* of an int(), else the DockerException of the ping
InitException(env) ==
    IF \/ Falsy(env.DISCORD_WEBHOOK_URL)
       \/ ~IntOf(EnvGet(env, "HEALTH_CHECK_INTERVAL", <<"3","0","0">>)).ok
       \/ ~IntOf(EnvGet(env, "MAX_RETRIES", <<"3">>)).ok
       \/ ~IntOf(EnvGet(env, "RETRY_DELAY", <<"5">>)).ok
    THEN "ValueError"
    ELSE "DockerException"

\* main(): DockerMonitor() raised, the except clause logs and calls exit(1)
StartupFail(pingOk) ==
    /\ pc = "start"
    /\ InitRaises(environ, pingOk)
    /\ pc' = "exit"
    /\ exit_code' = 1
    /\ raised' = InitException(environ)
    /\ UNCHANGED <<config, loop_state, nread, event, got, status, delivery, trace>>

\* main(): DockerMonitor() returned and monitor_events() starts reading the stream
StartupOk(pingOk) ==
    /\ pc = "start"
    /\ ~InitRaises(environ, pingOk)
    /\ webhook_url' = environ.DISCORD_WEBHOOK_URL
    /\ monitored_containers' = EnvGet(environ, "MONITORED_CONTAINERS", s_star)
    /\ notification_level' = StrLower(EnvGet(environ, "NOTIFICATION_LEVEL", s_all))
    /\ health_check_interval' = IntOf(EnvGet(environ, "HEALTH_CHECK_INTERVAL", <<"3","0","0">>)).val
    /\ max_retries' = IntOf(EnvGet(environ, "MAX_RETRIES", <<"3">>)).val
    /\ retry_delay' = IntOf(EnvGet(environ, "RETRY_DELAY", <<"5">>)).val
    /\ pc' = "read"
    /\ loop_state' = "Running"
    /\ UNCHANGED <<environ, exit_code, raised, nread, event, got, status, delivery, trace>>

\* self.event_configs: the keys of the template table
EventConfigKeys == {s_start, s_die, s_pause, s_unpause, s_health_status}

\* self.event_configs[action]; the leading emoji of each title is left out of
\* the title text
EventConfig(action) ==
    CASE action = s_start ->
           [title |-> "Container Started: ",
            description |-> <<"Container ", " has started successfully.">>,
            color |-> 65280]
      [] action = s_die ->
           [title |-> "Container Stopped: ",
            description |-> <<"Container ", " has stopped.">>,
            color |-> 16711680]
      [] action = s_pause ->
           [title |-> "Container Paused: ",
            description |-> <<"Container ", " has been paused.">>,
            color |-> 16753920]
      [] action = s_unpause ->
           [title |-> "Container Unpaused: ",
            description |-> <<"Container ", " has been unpaused.">>,
            color |-> 65280]
      [] action = s_health_status ->
           [title |-> "Health Status: ",
            description |-> <<"Health status changed for container ", ".">>,
            color |-> 255]

\* ------------------------------------------- monitor_events, up to the lookup

\* event['Actor']['Attributes'].get('name', 'unknown')
ContainerName(e) == IF e.name = None THEN s_unknown ELSE e.name

\* event['Actor'] or event['Action'] is missing: KeyError
EventKeyError(e) == ~e.hasActor \/ e.Action = None

\* the comparison with the wildcard inverted
SkipContainerInverted(e) ==
    /\ monitored_containers = s_star
    /\ ~InList(ContainerName(e), StrSplit(monitored_containers, ","))

\* the `continue` of the container allow-list
SkipContainer(e) ==
    /\ monitored_containers # s_star
    /\ ~InList(ContainerName(e), StrSplit(monitored_containers, ","))

\* "*" taken as the wildcard of the action allow-list too
SkipActionStar(e) ==
    /\ notification_level # s_star
    /\ ~InList(e.Action, StrSplit(notification_level, ","))

\* the `continue` of the action allow-list
SkipAction(e) ==
    /\ notification_level # s_all
    /\ ~InList(e.Action, StrSplit(notification_level, ","))

\* the name and the action read before the Type is tested
DispatchKeysFirst(e) ==
    IF EventKeyError(e) THEN "KeyError"
    ELSE IF e.Type # "container" THEN "continue"
    ELSE IF SkipContainer(e) THEN "continue"
    ELSE IF SkipAction(e) THEN "continue"
    ELSE IF e.Action \notin EventConfigKeys THEN "continue"
    ELSE IF e.id = None THEN "KeyError"
    ELSE "lookup"

\* the lookup made before the template table is consulted
DispatchLookupFirst(e) ==
    IF e.Type # "container" THEN "continue"
    ELSE IF EventKeyError(e) THEN "KeyError"
    ELSE IF SkipContainer(e) THEN "continue"
    ELSE IF SkipAction(e) THEN "continue"
    ELSE IF e.id = None THEN "KeyError"
    ELSE "lookup"

\* what lines 133-148 do with an event, up to the call of get_container_status:
\* "continue" (next event), "KeyError" (raised in the loop body) or "lookup"
Dispatch(e) ==
    IF e.Type # "container" THEN "continue"
    ELSE IF EventKeyError(e) THEN "KeyError"
    ELSE IF SkipContainer(e) THEN "continue"
    ELSE IF SkipAction(e) THEN "continue"
    ELSE IF e.Action \notin EventConfigKeys THEN "continue"
    ELSE IF e.id = None THEN "KeyError"
    ELSE "lookup"

\* the per-event variables as they are when an event has just been taken
ResetEvent(e) ==
    /\ event' = e
    /\ nread' = nread + 1
    /\ got' = NoLookup
    /\ status' = NoStatus
    /\ embed' = NoEmbed
    /\ attempt' = 0
    /\ outcomes' = <<>>
    /\ sleeps' = 0
    /\ result' = "none"
    /\ posted' = <<>>

\* the stream yields an event that the loop body drops with `continue`, or for
\* which no branch is taken (no template): the loop waits for the next event
ReadSkip(e) ==
    /\ pc = "read"
    /\ nread < MaxEvents
    /\ Dispatch(e) = "continue"
    /\ ResetEvent(e)
    /\ UNCHANGED <<config, pc, loop_state, exit_code, raised, trace>>

\* the stream yields an event the loop body cannot index: the KeyError reaches
\* `except Exception`, is logged and re-raised, and main() calls exit(1)
ReadKeyError(e) ==
    /\ pc = "read"
    /\ nread < MaxEvents
    /\ Dispatch(e) = "KeyError"
    /\ ResetEvent(e)
    /\ pc' = "exit"
    /\ loop_state' = "ShuttingDown"
    /\ exit_code' = 1
    /\ raised' = "KeyError"
    /\ UNCHANGED <<config, trace>>

\* the stream yields an event that passes both allow-lists and has a template:
\* the loop calls get_container_status(event['id'])
ReadAccept(e) ==
    /\ pc = "read"
    /\ nread < MaxEvents
    /\ Dispatch(e) = "lookup"
    /\ ResetEvent(e)
    /\ pc' = "lookup"
    /\ UNCHANGED <<config, loop_state, exit_code, raised, trace>>

\* client.events() raises while the loop waits for the next event
StreamFault ==
    /\ pc = "read"
    /\ pc' = "exit"
    /\ loop_state' = "ShuttingDown"
    /\ exit_code' = 1
    /\ raised' = "StreamError"
    /\ UNCHANGED <<config, nread, event, got, status, delivery, trace>>

\* interrupts held back everywhere but at the stream read
BlockingAtReadOnly == {"read"}

\* the places where the process blocks and a KeyboardInterrupt can be raised
Blocking == {"read", "lookup", "post", "sleep"}

\* the interrupt logged and re-raised like any other exception
InterruptReRaised ==
    /\ pc \in Blocking
    /\ pc' = "exit"
    /\ loop_state' = "ShuttingDown"
    /\ exit_code' = 1
    /\ raised' = "KeyboardInterrupt"
    /\ UNCHANGED <<config, nread, event, got, status, delivery, trace>>

\* KeyboardInterrupt: caught by no `except Exception` or `except
\* RequestException`, it reaches monitor_events' `except KeyboardInterrupt`,
\* which logs and returns; main() returns and the process exits with 0
Interrupt ==
    /\ pc \in Blocking
    /\ pc' = "exit"
    /\ loop_state' = "ShuttingDown"
    /\ exit_code' = 0
    /\ raised' = "KeyboardInterrupt"
    /\ UNCHANGED <<config, nread, event, got, status, delivery, trace>>

\* ------------------------------------------------------ get_container_status

StatusUnknown ==
    [image |-> "unknown", status |-> "unknown", health |-> "unknown",
     created |-> s_unknown, platform |-> "unknown"]

StatusError ==
    [image |-> "error", status |-> "error", health |-> "error",
     created |-> s_error, platform |-> "error"]

\* one handler for every exception of the lookup
GetContainerStatusOneHandler(r) ==
    IF r.kind \in {"NotFound", "Exception"} THEN StatusUnknown
    ELSE LET c == r.container IN
         IF c.Created = None THEN StatusUnknown
         ELSE [image |-> IF Len(c.tags) > 0 THEN c.tags[1] ELSE "untagged",
               status |-> c.status,
               health |-> IF c.hasHealth THEN c.health ELSE "N/A",
               created |-> StrReplace(StrPrefix(c.Created, 19), "T", " "),
               platform |-> IF c.hasPlatform THEN c.Platform ELSE "N/A"]

\* get_container_status, given what client.containers.get did
GetContainerStatus(r) ==
    IF r.kind = "NotFound" THEN StatusUnknown
    ELSE IF r.kind = "Exception" THEN StatusError
    ELSE LET c == r.container IN
         IF c.Created = None THEN StatusError   \* KeyError in attrs['Created']
         ELSE [image |-> IF Len(c.tags) > 0 THEN c.tags[1] ELSE "untagged",
               status |-> c.status,
               health |-> IF c.hasHealth THEN c.health ELSE "N/A",
               created |-> StrReplace(StrPrefix(c.Created, 19), "T", " "),
               platform |-> IF c.hasPlatform THEN c.Platform ELSE "N/A"]

\* ----------------------------------------- monitor_events, lines 150 to 166

\* f"<t:{int(time.time())}:F>"
TimestampValue(t) == <<"<t:", t, ":F>">>

\* the exit code appended when the attribute is there, not when the action is die
FieldsExitWhenPresent(e, st, t) ==
    LET base == << [name |-> "Event", value |-> e.Action, inline |-> TRUE],
                   [name |-> "Image", value |-> st.image, inline |-> TRUE],
                   [name |-> "Status", value |-> st.status, inline |-> TRUE],
                   [name |-> "Health", value |-> st.health, inline |-> TRUE],
                   [name |-> "Platform", value |-> st.platform, inline |-> TRUE],
                   [name |-> "Timestamp", value |-> TimestampValue(t), inline |-> FALSE] >>
    IN IF e.exitCode # None
       THEN Append(base, [name |-> "Exit Code", value |-> e.exitCode, inline |-> FALSE])
       ELSE base

\* the list `fields` of lines 150-166
Fields(e, st, t) ==
    LET base == << [name |-> "Event", value |-> e.Action, inline |-> TRUE],
                   [name |-> "Image", value |-> st.image, inline |-> TRUE],
                   [name |-> "Status", value |-> st.status, inline |-> TRUE],
                   [name |-> "Health", value |-> st.health, inline |-> TRUE],
                   [name |-> "Platform", value |-> st.platform, inline |-> TRUE],
                   [name |-> "Timestamp", value |-> TimestampValue(t), inline |-> FALSE] >>
    IN IF e.Action = s_die
       THEN Append(base, [name |-> "Exit Code",
                          value |-> IF e.exitCode = None THEN s_Unknown ELSE e.exitCode,
                          inline |-> FALSE])
       ELSE base

\* -------------------------------------------------------- send_discord_embed

\* the embed dict of lines 79-85, for the arguments of the call at line 169
Embed(e, st, t1, t2) ==
    [title |-> <<EventConfig(e.Action).title, ContainerName(e)>>,
     description |-> <<EventConfig(e.Action).description[1], ContainerName(e),
                       EventConfig(e.Action).description[2]>>,
     color |-> EventConfig(e.Action).color,
     fields |-> Fields(e, st, t1),
     timestamp |-> t2]

\* the embed built anew, with the time of the attempt, for every attempt
PayloadRestamped == [embeds |-> <<[embed EXCEPT !.timestamp = @ + attempt]>>]

\* payload = {"embeds": [embed]}, the body of every POST of the call
Payload == [embeds |-> <<embed>>]

\* the loop bound off by one: one attempt too many
HasNextOffByOne(i) == i + 1 <= max_retries

\* range(self.max_retries) still has an index after i
HasNext(i) == i + 1 < max_retries

\* a sleep after every failed attempt, the last one included
SleepAfterEveryAttempt(i) == i < max_retries

\* the condition of line 103
SleepCondition(i) == i < max_retries - 1

\* a failed delivery raised to the caller instead of being returned
ReturnOrRaise(r) ==
    /\ result' = r
    /\ pc' = IF r = "False" THEN "exit" ELSE "read"

\* a failure reported to the webhook itself: one more POST after the last attempt
ReturnAndReport(r) ==
    /\ result' = r
    /\ pc' = IF r = "False" THEN "post" ELSE "read"

\* a failed notification put back: the event is looked up and sent again
ReturnAndRequeue(r) ==
    /\ result' = r
    /\ pc' = IF r = "False" THEN "lookup" ELSE "read"

\* send_discord_embed returns r and the loop body ends (line 175 only logs):
\* the loop waits for the next event
Return(r) ==
    /\ result' = r
    /\ pc' = "read"

\* client.containers.get(event['id']) ends with r: get_container_status returns,
\* the fields are built and send_discord_embed is entered; its for loop makes
\* no iteration when range(self.max_retries) is empty
Lookup(r, t1, t2) ==
    /\ pc = "lookup"
    /\ t1 <= t2
    /\ got' = r
    /\ status' = GetContainerStatus(r)
    /\ embed' = Embed(event, status', t1, t2)
    /\ trace' = Append(trace, <<"lookup", nread>>)
    /\ attempt' = 0
    /\ IF 0 < max_retries
       THEN pc' = "post" /\ result' = result
       ELSE Return("False")
    /\ UNCHANGED <<config, loop_state, exit_code, raised, nread, event, outcomes, sleeps, posted>>

\* one requests.post ends with o
Post(o) ==
    /\ pc = "post"
    /\ outcomes' = Append(outcomes, o)
    /\ posted' = Append(posted, Payload)
    /\ trace' = Append(trace, <<"post", nread>>)
    /\ IF o.kind = "response"
       THEN IF o.status_code = 204
            THEN Return("True") /\ attempt' = attempt
            ELSE \* logged as a warning; the for loop goes on without sleeping
                 IF HasNext(attempt)
                 THEN pc' = "post" /\ attempt' = attempt + 1 /\ result' = result
                 ELSE Return("False") /\ attempt' = attempt
       ELSE \* RequestException: logged, then line 103
            IF SleepCondition(attempt)
            THEN pc' = "sleep" /\ attempt' = attempt /\ result' = result
            ELSE IF HasNext(attempt)
                 THEN pc' = "post" /\ attempt' = attempt + 1 /\ result' = result
                 ELSE Return("False") /\ attempt' = attempt
    /\ UNCHANGED <<config, loop_state, exit_code, raised, nread, event, got, status, embed, sleeps>>

\* time.sleep(self.retry_delay) returns and `continue` starts the next attempt
Sleep ==
    /\ pc = "sleep"
    /\ retry_delay >= 0
    /\ sleeps' = sleeps + 1
    /\ attempt' = attempt + 1
    /\ pc' = "post"
    /\ UNCHANGED <<config, loop_state, exit_code, raised, nread, event, got, status, embed,
                   outcomes, result, posted, trace>>

\* time.sleep of a negative number raises ValueError, which no handler of
\* send_discord_embed catches: monitor_events logs it as fatal and re-raises
SleepRaises ==
    /\ pc = "sleep"
    /\ retry_delay < 0
    /\ pc' = "exit"
    /\ loop_state' = "ShuttingDown"
    /\ exit_code' = 1
    /\ raised' = "ValueError"
    /\ UNCHANGED <<config, nread, event, got, status, delivery, trace>>

Next ==
    \/ \E pingOk \in BOOLEAN : StartupFail(pingOk)
    \/ \E pingOk \in BOOLEAN : StartupOk(pingOk)
    \/ \E e \in Events : ReadSkip(e)
    \/ \E e \in Events : ReadKeyError(e)
    \/ \E e \in Events : ReadAccept(e)
    \/ StreamFault
    \/ Interrupt
    \/ \E r \in LookupResults, t1, t2 \in Times : Lookup(r, t1, t2)
    \/ \E o \in PostResults : Post(o)
    \/ Sleep
    \/ SleepRaises

Spec == Init /\ [][Next]_vars

\* ================================================================== claims

Is204(o) == o.kind = "response" /\ o.status_code = 204

\* a lookup or a POST was made for the event being processed
Worked == \E i \in 1..Len(trace) : trace[i][2] = nread

\* the event being processed is a container event with every key the loop indexes
WellFormed(e) == e.Type = "container" /\ e.hasActor /\ e.Action # None /\ e.id # None

\* C1: when send_discord_embed has returned, it returned True if and only if
\* one of its attempts, which are at most max_retries, received status 204,
\* and False if and only if it made all max_retries attempts and each failed.
C1_ReturnsTrueIffSome204 ==
    result # "none" =>
        /\ Len(outcomes) <= (IF max_retries > 0 THEN max_retries ELSE 0)
        /\ result = "True" <=> \E i \in 1..Len(outcomes) : Is204(outcomes[i])
        /\ result = "False" <=>
              /\ Len(outcomes) = (IF max_retries > 0 THEN max_retries ELSE 0)
              /\ \A i \in 1..Len(outcomes) : ~Is204(outcomes[i])

\* a call that failed with a transport error, then a 500, and then got 204
C1_Witness ==
    /\ result = "True"
    /\ Len(outcomes) = 3
    /\ outcomes[1].kind = "RequestException"
    /\ outcomes[2].status_code = 500
    /\ Is204(outcomes[3])

\* C2: when send_discord_embed has returned after n >= 1 attempts it has slept
\* n - 1 times, once between every two consecutive attempts whatever the
\* failure was (so max_retries - 1 times when all attempts failed, and twice
\* for 500, 500, 204).
C2_SleepBetweenAttempts ==
    (result # "none" /\ Len(outcomes) >= 1) => sleeps = Len(outcomes) - 1

\* C3, as claimed: an interrupt is not recognized once a delivery has begun: the
\* loop never shuts down gracefully (exit status 0) from inside a POST or a
\* backoff sleep, so no run abandons a delivery mid-retry.
C3_NoCancelMidDelivery ==
    [][(pc \in {"post", "sleep"} => ~(loop_state' = "ShuttingDown" /\ exit_code' = 0))]_vars

\* C3, amended: an interrupt is recognized at every blocking point, a POST or a
\* backoff sleep included; a delivery that has begun is left only by returning
\* (the loop then waits for the next event) or by shutting the loop down with
\* no further POST, and no event is taken from the stream before that.
C3_DeliveryStep ==
    pc \in {"post", "sleep"} =>
        /\ nread' = nread
        /\ event' = event
        /\ \/ pc' \in {"post", "sleep"} /\ loop_state' = "Running" /\ result' = "none"
           \/ pc' = "read" /\ loop_state' = "Running" /\ result' # "none"
           \/ pc' = "exit" /\ loop_state' = "ShuttingDown" /\ trace' = trace

C3_CancelAtEveryBlockingPoint ==
    /\ [](pc \in {"lookup", "post", "sleep"} => ENABLED Interrupt)
    /\ [][C3_DeliveryStep]_vars

\* the loop was interrupted during a backoff sleep, after a failed POST, and
\* exited with status 0 without finishing the delivery
C3_Witness ==
    /\ pc = "exit"
    /\ exit_code = 0
    /\ result = "none"
    /\ Len(outcomes) = 1
    /\ max_retries = 3
    /\ retry_delay >= 0
    /\ outcomes[1].kind = "RequestException"

\* C4: when send_discord_embed has returned for an event that passed both
\* allow-lists and has a template, at least one POST was made for it.
C4_AtLeastOnePost ==
    result # "none" => \E i \in 1..Len(trace) : trace[i] = <<"post", nread>>

\* C5: when send_discord_embed returns False the loop stays Running and waits
\* for the next event, and lookups and POSTs are made only for the event being
\* processed while its delivery has not returned: none for an event whose
\* delivery has failed.
C5_Step ==
    /\ (result = "none" /\ result' = "False") =>
            (pc' = "read" /\ loop_state' = "Running" /\ exit_code' = -1)
    /\ trace' # trace =>
            /\ result = "none"
            /\ nread' = nread
            /\ \E k \in {"lookup", "post"} : trace' = Append(trace, <<k, nread>>)

C6_StarStep ==
    LET names == EnvGet(environ, "MONITORED_CONTAINERS", s_star)
        actions == EnvGet(environ, "NOTIFICATION_LEVEL", s_all)
    IN (/\ pc = "read" /\ nread' = nread + 1
        /\ WellFormed(event') /\ event'.Action \in EventConfigKeys) =>
          (pc' = "lookup" <=>
              /\ names = s_star \/ InList(ContainerName(event'), StrSplit(names, ","))
              /\ actions = s_star \/ InList(event'.Action, StrSplit(actions, ",")))

C6_StarWildcardExactEntries == [][C6_StarStep]_vars

\* C6, amended: the wildcard of the container allow-list is "*" and the wildcard
\* of the action allow-list is "all" in any letter case ("*" is no wildcard
\* there); a container list that is not the wildcard accepts an event if and
\* only if its name ("unknown" when it has none) is equal to one of the
\* comma-separated entries, and an action list that is not the wildcard
\* accepts it if and only if its action is equal to the lower-cased form of one
\* of the comma-separated entries.
C6_Step ==
    LET names == EnvGet(environ, "MONITORED_CONTAINERS", s_star)
        actions == EnvGet(environ, "NOTIFICATION_LEVEL", s_all)
        entries == StrSplit(actions, ",")
    IN (/\ pc = "read" /\ nread' = nread + 1
        /\ WellFormed(event') /\ event'.Action \in EventConfigKeys) =>
          (pc' = "lookup" <=>
              /\ names = s_star \/ InList(ContainerName(event'), StrSplit(names, ","))
              /\ \/ StrLower(actions) = s_all
                 \/ \E i \in 1..Len(entries) : StrLower(entries[i]) = event'.Action)

C6_WildcardsAndEntries == [][C6_Step]_vars

\* the action list "Start,die" and the container list "web,db" accepted a
\* start event of web
C6_Witness ==
    /\ environ.NOTIFICATION_LEVEL = s_Start_die
    /\ environ.MONITORED_CONTAINERS = s_web_db
    /\ event.Action = s_start
    /\ event.name = s_web
    /\ pc = "lookup"

\* C7: taking an event whose Type is not "container" from the stream, whatever
\* keys it has or lacks, makes no lookup and no POST and leaves the loop
\* Running and waiting for the next event.
C7_Step ==
    (pc = "read" /\ nread' = nread + 1 /\ event'.Type # "container") =>
        /\ pc' = "read"
        /\ loop_state' = "Running"
        /\ exit_code' = -1
        /\ trace' = trace
        /\ got' = NoLookup

C7_NonContainerRejected == [][C7_Step]_vars

\* a network event without Actor, Action and id was dropped and the loop waits
\* for the next event
C7_Witness ==
    /\ event.Type = "network"
    /\ ~event.hasActor
    /\ event.Action = None
    /\ nread = 1
    /\ pc = "read"
    /\ loop_state = "Running"

\* C8: for a container event whose name is not in a container allow-list other
\* than "*", or whose action is not in an action allow-list other than its
\* wildcard "all", neither a lookup nor a POST is ever made.
C8_RejectedNoWork ==
    (/\ event.Type = "container" /\ event.hasActor /\ event.Action # None
     /\ \/ /\ monitored_containers # s_star
           /\ \A i \in 1..Len(StrSplit(monitored_containers, ",")) :
                 StrSplit(monitored_containers, ",")[i] # ContainerName(event)
        \/ /\ notification_level # s_all
           /\ \A i \in 1..Len(StrSplit(notification_level, ",")) :
                 StrSplit(notification_level, ",")[i] # event.Action)
    => (~Worked /\ got = NoLookup /\ outcomes = <<>> /\ pc \in {"read", "exit"})

\* with the container allow-list "web,db", a start event of cache was dropped
C8_Witness ==
    /\ monitored_containers = s_web_db
    /\ event.Type = "container"
    /\ event.name = s_cache
    /\ event.Action = s_start
    /\ event.id # None
    /\ notification_level = s_all
    /\ nread = 1
    /\ pc = "read"
    /\ loop_state = "Running"

\* C9: taking a container event whose action has no template from the stream
\* makes no lookup and no POST and leaves the loop Running and waiting for the
\* next event.
C9_Step ==
    (/\ pc = "read" /\ nread' = nread + 1
     /\ event'.Type = "container" /\ event'.hasActor /\ event'.Action # None
     /\ event'.Action \notin {s_start, s_die, s_pause, s_unpause, s_health_status})
    => (/\ pc' = "read"
        /\ loop_state' = "Running"
        /\ exit_code' = -1
        /\ trace' = trace
        /\ got' = NoLookup)

C9_NoTemplateNoNotification == [][C9_Step]_vars

\* a kill event that passes both allow-lists was dropped
C9_Witness ==
    /\ event.Type = "container"
    /\ event.Action = s_kill
    /\ event.name = s_web
    /\ monitored_containers = s_web_db
    /\ notification_level = s_all
    /\ nread = 1
    /\ pc = "read"
    /\ loop_state = "Running"

\* C10: when the lookup raised NotFound the status has "unknown" in all five
\* fields, when it raised anything else it has "error" in all five; the step
\* in which the lookup ends never stops the loop: the embed is built from that
\* status and send_discord_embed is entered.
AllFive(st, v, vs) ==
    /\ st.image = v /\ st.status = v /\ st.health = v /\ st.platform = v
    /\ st.created = vs

C10_Step ==
    (pc = "lookup" /\ got' # NoLookup) =>
        /\ got'.kind = "NotFound" => AllFive(status', "unknown", s_unknown)
        /\ got'.kind = "Exception" => AllFive(status', "error", s_error)
        /\ loop_state' = "Running"
        /\ exit_code' = -1
        /\ embed' # NoEmbed
        /\ \A i \in 2..5 : embed'.fields[i].value \in
               {status'.image, status'.status, status'.health, status'.platform}
        /\ embed'.fields[2].value = status'.image
        /\ pc' = "post" \/ (max_retries <= 0 /\ pc' = "read" /\ result' = "False")

C10_EnricherNeverRaises == [][C10_Step]_vars

\* the notification of an event whose lookup raised something other than
\* NotFound is being posted
C10_Witness ==
    /\ got.kind = "Exception"
    /\ status.image = "error"
    /\ pc = "post"
    /\ embed.fields[3].value = "error"

\* number of POSTs made for event number k
PostsFor(k) == Cardinality({i \in 1..Len(trace) : trace[i] = <<"post", k>>})

\* the attempt budget: range(max_retries) has this many indices
Budget == IF max_retries > 0 THEN max_retries ELSE 0

\* C11: no event has more than max_retries POSTs; within a call no POST follows
\* one that received 204; after a non-204 answer with budget left the next POST
\* is under way; a call returns False only with the budget used up; and once
\* the call has returned no POST is in progress and the POSTs made for the
\* event are those of the call.
C11_AtMostMaxRetriesPosts ==
    /\ \A k \in 1..nread : PostsFor(k) <= Budget
    /\ \A i \in 1..(Len(outcomes) - 1) : ~Is204(outcomes[i])
    /\ (/\ loop_state = "Running" /\ Len(outcomes) >= 1 /\ Len(outcomes) < Budget
        /\ outcomes[Len(outcomes)].kind = "response"
        /\ outcomes[Len(outcomes)].status_code # 204) => pc = "post"
    /\ result = "False" => Len(outcomes) = Budget
    /\ result # "none" => (pc \in {"read", "exit"} /\ PostsFor(nread) = Len(outcomes))

\* two attempts were answered 500 and the third, the last of the budget, is under way
C11_Witness ==
    /\ pc = "post"
    /\ max_retries = 3
    /\ Len(outcomes) = 2
    /\ outcomes[1].status_code = 500
    /\ outcomes[2].status_code = 500
    /\ PostsFor(nread) = 2

\* C12: the loop is ShuttingDown only after an operator interrupt or a fault of
\* the event stream (the stream raising, or yielding an event the loop cannot
\* index), and then the process has ended: nothing more is read, looked up or
\* posted, and the stream is not opened again.
C12_ShutdownOnlyByInterruptOrStreamFault ==
    loop_state = "ShuttingDown" =>
        /\ raised \in {"KeyboardInterrupt", "StreamError", "KeyError"}
        /\ pc = "exit"
        /\ ~ENABLED Next

\* C13: the process has no exit status while it runs; it exits with 0 when an
\* operator interrupt ended the loop and with 1 otherwise: when __init__ raised
\* (no webhook URL, a failed ping, which can happen at every start) and when
\* the stream read raised.
C13_ExitCodes ==
    /\ pc # "exit" => (exit_code = -1 /\ raised = "none")
    /\ pc = "exit" => exit_code = (IF raised = "KeyboardInterrupt" THEN 0 ELSE 1)
    /\ raised = "KeyboardInterrupt" => loop_state = "ShuttingDown"
    /\ raised = "StreamError" => (loop_state = "ShuttingDown" /\ exit_code = 1)
    /\ raised = "DockerException" => (loop_state = "NotStarted" /\ exit_code = 1)
    /\ (Falsy(environ.DISCORD_WEBHOOK_URL) /\ pc # "start") =>
            (loop_state = "NotStarted" /\ exit_code = 1 /\ raised = "ValueError")
    /\ pc = "start" => ENABLED StartupFail(FALSE)

\* the loop was interrupted while waiting for the next event, after a
\* notification had been delivered, and the process exited with 0
C13_Witness ==
    /\ pc = "exit"
    /\ raised = "KeyboardInterrupt"
    /\ exit_code = 0
    /\ result = "True"
    /\ nread = 1

\* C14: the lookups and POSTs are made in the order of the events: those of an
\* event all come before those of every later event, each event has one lookup
\* and it comes before its POSTs, and a delivery is in progress only for the
\* event taken last.
C14_SequentialInOrder ==
    /\ \A i \in 1..Len(trace) : trace[i][2] \in 1..nread
    /\ \A i, j \in 1..Len(trace) : i < j => trace[i][2] <= trace[j][2]
    /\ \A i \in 1..Len(trace) :
          IF trace[i][1] = "lookup"
          THEN i = 1 \/ trace[i-1][2] < trace[i][2]
          ELSE i > 1 /\ trace[i-1][2] = trace[i][2]
    /\ pc \in {"post", "sleep"} => trace[Len(trace)][2] = nread

\* the second event is posted after the lookup and the two POSTs of the first
C14_Witness ==
    trace = << <<"lookup", 1>>, <<"post", 1>>, <<"post", 1>>,
               <<"lookup", 2>>, <<"post", 2>> >>

\* C15: the fields of every embed are Event, Image, Status, Health, Platform,
\* each inline, then Timestamp, not inline; a seventh field, Exit Code, not
\* inline, is there if and only if the action is die, and its value is the
\* event's exitCode attribute, or "Unknown" when the event has none.
C15_FieldList ==
    embed # NoEmbed =>
        LET f == embed.fields IN
        /\ Len(f) = (IF event.Action = s_die THEN 7 ELSE 6)
        /\ [i \in 1..6 |-> f[i].name] =
              <<"Event", "Image", "Status", "Health", "Platform", "Timestamp">>
        /\ [i \in 1..6 |-> f[i].inline] = <<TRUE, TRUE, TRUE, TRUE, TRUE, FALSE>>
        /\ f[1].value = event.Action
        /\ <<f[2].value, f[3].value, f[4].value, f[5].value>> =
              <<status.image, status.status, status.health, status.platform>>
        /\ Len(f) = 7 =>
              /\ f[7].name = "Exit Code"
              /\ f[7].inline = FALSE
              /\ f[7].value = (IF event.exitCode = None
                               THEN <<"U","n","k","n","o","w","n">>
                               ELSE event.exitCode)

\* the embed of a die event with exitCode "137" ends with the field Exit Code = "137"
C15_Witness ==
    /\ embed # NoEmbed
    /\ event.Action = s_die
    /\ event.exitCode = <<"1","3","7">>
    /\ embed.fields[Len(embed.fields)] =
          [name |-> "Exit Code", value |-> <<"1","3","7">>, inline |-> FALSE]
    /\ Len(posted) = 1

\* the event passes the Event Filter: a container event whose name and action
\* pass the two allow-lists
Accepted(e) ==
    /\ WellFormed(e)
    /\ \/ monitored_containers = s_star
       \/ InList(ContainerName(e), StrSplit(monitored_containers, ","))
    /\ \/ notification_level = s_all
       \/ InList(e.Action, StrSplit(notification_level, ","))

\* C16, as claimed: for every event that passes the Event Filter the container
\* lookup is made, before it is decided whether the action has a template.
C16_ClaimedStep ==
    (pc = "read" /\ nread' = nread + 1 /\ Accepted(event')) => pc' = "lookup"

C16_LookupBeforeTemplate == [][C16_ClaimedStep]_vars

\* C16, amended: for every event that passes the Event Filter the template
\* table is consulted first: an event whose action has no template is dropped
\* with no container lookup, and only for an event whose action has a template
\* is the lookup made, and after it the notification formatted.
C16_Step ==
    (pc = "read" /\ nread' = nread + 1 /\ Accepted(event')) =>
        /\ trace' = trace
        /\ got' = NoLookup
        /\ embed' = NoEmbed
        /\ IF event'.Action \in {s_start, s_die, s_pause, s_unpause, s_health_status}
           THEN pc' = "lookup"
           ELSE pc' = "read" /\ loop_state' = "Running"

C16_TemplateBeforeLookup ==
    /\ []((\E i \in 1..Len(trace) : trace[i] = <<"lookup", nread>>) =>
             /\ event.Action \in {s_start, s_die, s_pause, s_unpause, s_health_status}
             /\ got # NoLookup
             /\ embed # NoEmbed)
    /\ [](embed # NoEmbed => got # NoLookup)
    /\ [][C16_Step]_vars

\* a kill event of cache passed both wildcards and was dropped without a lookup
C16_Witness ==
    /\ monitored_containers = s_star
    /\ notification_level = s_all
    /\ event.Type = "container"
    /\ event.name = s_cache
    /\ event.Action = s_kill
    /\ event.id # None
    /\ nread = 1
    /\ got = NoLookup
    /\ trace = <<>>
    /\ pc = "read"

\* C17: a sleep is only ever under way after a failed attempt that is not the
\* last of the budget; the call returns in the step of its max_retries-th
\* attempt; and a call that has returned slept at most (attempts made - 1)
\* times.
C17_NoSleepAfterLastAttempt ==
    /\ pc = "sleep" =>
          /\ Len(outcomes) >= 1
          /\ Len(outcomes) < max_retries
          /\ ~Is204(outcomes[Len(outcomes)])
          /\ sleeps < Len(outcomes)
    /\ (Len(outcomes) >= 1 /\ Len(outcomes) = max_retries) => result # "none"
    /\ (\E i \in 1..Len(outcomes) : Is204(outcomes[i])) => result = "True"
    /\ (result # "none" /\ Len(outcomes) >= 1) => sleeps <= Len(outcomes) - 1

\* three transport errors with max_retries = 3: two sleeps, then False
C17_Witness ==
    /\ result = "False"
    /\ max_retries = 3
    /\ Len(outcomes) = 3
    /\ \A i \in 1..3 : outcomes[i].kind = "RequestException"
    /\ sleeps = 2
    /\ pc = "read"

\* C18: without an operator interrupt, an event that has been taken from the
\* stream is always carried on (every lookup, POST and sleep ends with the
\* loop still Running) until the loop is back at the stream read, so
\* it is eventually finished; and no event is taken from the stream while the
\* one before is still being processed.
C18_Step ==
    /\ (pc \in {"lookup", "post", "sleep"} /\ raised' # "KeyboardInterrupt") =>
          /\ pc' \in {"lookup", "post", "sleep", "read"}
          /\ loop_state' = "Running"
          /\ nread' = nread
    /\ nread' = nread + 1 =>
          /\ pc = "read"
          /\ got = NoLookup \/ result # "none"

C18_EveryEventFinished ==
    /\ [](pc = "post" => ENABLED (\E o \in PostResults : Post(o)))
    /\ [][C18_Step]_vars

\* C19: every POST of a send_discord_embed call carried the embed as it was
\* built before the first attempt (title, description, color, fields and
\* timestamp; no retry changed it), one body per attempt, and the event has had
\* at most one container lookup.
C19_SamePayloadEveryAttempt ==
    /\ Len(posted) = Len(outcomes)
    /\ \A i \in 1..Len(posted) : posted[i] = [embeds |-> <<embed>>]
    /\ \A i, j \in 1..Len(posted) : posted[i] = posted[j]
    /\ Cardinality({i \in 1..Len(trace) : trace[i] = <<"lookup", nread>>}) <= 1
    /\ posted # <<>> =>
          /\ got # NoLookup
          /\ status = GetContainerStatus(got)
          /\ embed.fields[2].value = status.image

\* three POSTs, a backoff sleep among them, all with the embed stamped before
\* the first attempt
C19_Witness ==
    /\ Len(posted) = 3
    /\ sleeps >= 1
    /\ posted[1] = posted[3]
    /\ posted[3].embeds[1].timestamp = 2
    /\ posted[3].embeds[1].fields[6].value = <<"<t:", 1, ":F>">>

====
